---- MODULE Spec2Model ----
(***************************************************************************)
(* A model of src/visual/visual.py: the daily_assistant tool (five JSON    *)
(* documents under ~/.daily_assistant, one handler per category, a daily   *)
(* summary) and the visualize_code tool (fetch a file, sniff it for        *)
(* "error", wrap it in a prompt).                                          *)
(*                                                                         *)
(* Conventions.  A Python dict is a function from its keys; a list is a    *)
(* sequence.  A timestamp is the number of minutes since the epoch, a date *)
(* ("%Y-%m-%d") is the number of its day.  A "time" of a task and the text  *)
(* visualize_code handles are sequences of character codes, since the code *)
(* orders them and searches them; every other string is a TLA+ string.     *)
(* A returned string is a record of its kind and of the values it embeds.  *)
(***************************************************************************)
EXTENDS Integers, Sequences, FiniteSets

VARIABLES
    files,      \* the five documents on disk: category -> [state, doc]
    now,        \* the system clock (datetime.now()), in minutes
    call,       \* the daily_assistant call made last
    result,     \* what that call returned
    pc,         \* per server process: where its running call stands
    loaded,     \* per server process: the document its running call loaded
    request,    \* the visualize_code call: its url and what the network will answer
    answer      \* what visualize_code returned

vars == <<files, now, call, result, pc, loaded, request, answer>>

(***************************************************************************)
(* Bounds of the model.                                                    *)
(***************************************************************************)
MaxRecords == 2     \* records the five documents hold together
MaxDay == 1         \* last day the clock reaches (outside the habit window runs)
MaxMinute == 1      \* last minute of a day the clock reaches
MaxBody == 5        \* longest fetched text

(***************************************************************************)
(* Python dicts and lists.                                                 *)
(***************************************************************************)
EmptyDict == [k \in {} |-> 0]

Get(d, k, default) == IF k \in DOMAIN d THEN d[k] ELSE default

SetItem(d, k, v) == [x \in DOMAIN d \cup {k} |-> IF x = k THEN v ELSE d[x]]

\* d.setdefault(k, []).append(v), as the dict it leaves
AppendTo(d, k, v) == SetItem(d, k, Append(Get(d, k, <<>>), v))

Last(s) == s[Len(s)]

\* s[-n:]
Tail_n(s, n) == IF Len(s) <= n THEN s ELSE SubSeq(s, Len(s) - n + 1, Len(s))

\* reversed(s)
Reversed(s) == [i \in 1..Len(s) |-> s[Len(s) + 1 - i]]

Occurrences(s, x) == Cardinality({i \in 1..Len(s) : s[i] = x})

RECURSIVE Sum(_)
Sum(s) == IF s = <<>> THEN 0 ELSE Head(s) + Sum(Tail(s))

(***************************************************************************)
(* The clock.                                                              *)
(***************************************************************************)
MinutesPerDay == 1440

\* datetime.now().strftime("%Y-%m-%d")
DateOf(t) == t \div MinutesPerDay

Midnight(day) == day * MinutesPerDay

(***************************************************************************)
(* The data argument.  A data string is described by what the code tests   *)
(* of it: its form, the JSON value it parses to, and (where the code keeps *)
(* the string itself, in a note) the string.                               *)
(*   empty   ""                      blank   "  "                          *)
(*   text    not JSON, no leading {  brace   not JSON, leading {           *)
(*   object  a JSON object           padded  a JSON object after a space   *)
(*   array   a JSON array            number  a JSON number                 *)
(***************************************************************************)
\* not data.strip()
IsBlank(data) == data.form \in {"empty", "blank"}

\* data.startswith("{")
StartsWithBrace(data) == data.form \in {"brace", "object"}

\* a parser that takes what is not JSON for an empty object
JsonLoadsLenient(data) ==
    CASE data.form \in {"object", "padded"} ->
             [ok |-> TRUE, type |-> "dict", value |-> data.obj]
      [] data.form = "array" -> [ok |-> TRUE, type |-> "list", value |-> EmptyDict]
      [] data.form = "number" -> [ok |-> TRUE, type |-> "int", value |-> EmptyDict]
      [] OTHER -> [ok |-> TRUE, type |-> "dict", value |-> EmptyDict]

\* json.loads(data): ok is FALSE where it raises
JsonLoads(data) ==
    CASE data.form \in {"object", "padded"} ->
             [ok |-> TRUE, type |-> "dict", value |-> data.obj]
      [] data.form = "array" -> [ok |-> TRUE, type |-> "list", value |-> EmptyDict]
      [] data.form = "number" -> [ok |-> TRUE, type |-> "int", value |-> EmptyDict]
      [] OTHER -> [ok |-> FALSE, type |-> "none", value |-> EmptyDict]

\* "action" in x and x["action"] == verb, for x a dict or a list ("action" in
\* a number raises: see Subscriptable)
IsAction(parsed, verb) ==
    /\ parsed.type = "dict"
    /\ "action" \in DOMAIN parsed.value
    /\ parsed.value["action"] = verb

\* whether "action" in x evaluates at all
Subscriptable(parsed) == parsed.type \in {"dict", "list"}

(***************************************************************************)
(* The JSON store.                                                         *)
(***************************************************************************)
Categories == {"schedule", "reminders", "notes", "habits", "focus"}

Absent == [state |-> "absent", doc |-> EmptyDict]
Corrupt == [state |-> "corrupt", doc |-> EmptyDict]
Stored(doc) == [state |-> "ok", doc |-> doc]

\* a loader that takes whatever the file held
LoadUnguarded(file) == file.doc

\* _load_json_file: the document, or {} when the file is absent or unreadable
LoadJsonFile(file) == IF file.state = "ok" THEN file.doc ELSE EmptyDict

\* _save_json_file: the file after json.dump of the whole document
SaveJsonFile(doc) == Stored(doc)

(***************************************************************************)
(* What a handler does: whether it saves, the document it saves, and the   *)
(* string it returns.                                                      *)
(***************************************************************************)
Returns(res) == [save |-> FALSE, doc |-> EmptyDict, result |-> res]
Saves(doc, res) == [save |-> TRUE, doc |-> doc, result |-> res]

\* except Exception as e: return f"<Category> error: {str(e)}"
ErrorString(category) == [kind |-> "error", category |-> category]

NothingFound(message) == [kind |-> "nothing", message |-> message]

(***************************************************************************)
(* _handle_schedule                                                        *)
(***************************************************************************)
\* a < b for Python strings: code point by code point, a prefix first
LexLess(a, b) ==
    \E i \in 1..(Len(b)) :
        /\ \A j \in 1..(i - 1) : j <= Len(a) /\ a[j] = b[j]
        /\ (i > Len(a) \/ (i <= Len(a) /\ a[i] < b[i]))

\* a sort that reads the strings as hours: "9" before "10"
ByTheClock(a, b) == Len(a) < Len(b) \/ (Len(a) = Len(b) /\ LexLess(a, b))

\* the order sorted(key=...) compares keys in
TimeBefore(a, b) == LexLess(a, b)

\* sorted(tasks, key=lambda x: x.get("time", "")): stable, ascending
RECURSIVE SortedByTime(_)
SortedByTime(tasks) ==
    IF tasks = <<>> THEN <<>>
    ELSE LET rest == SortedByTime(SubSeq(tasks, 1, Len(tasks) - 1))
             x == Last(tasks)
             \* x goes after every element that is not after it
             k == Cardinality({i \in 1..Len(rest) : ~TimeBefore(x.time, rest[i].time)})
         IN SubSeq(rest, 1, k) \o <<x>> \o SubSeq(rest, k + 1, Len(rest))

TodayTasks(schedule, today) ==
    LET OnToday(t) == t.date = today
    IN SelectSeq(Get(schedule, "tasks", <<>>), OnToday)

ScheduleReport(schedule, today) ==
    LET today_tasks == TodayTasks(schedule, today)
        ordered == SortedByTime(today_tasks)
    IN IF today_tasks = <<>> THEN NothingFound("No tasks scheduled for today")
       ELSE [kind |-> "report", category |-> "schedule",
             lines |-> [i \in 1..Len(ordered) |->
                          [completed |-> ordered[i].completed,
                           time |-> ordered[i].time,
                           title |-> ordered[i].title]]]

NewTask(schedule, task_data, today) ==
    [id |-> Len(Get(schedule, "tasks", <<>>)) + 1,
     title |-> Get(task_data, "title", ""),
     time |-> Get(task_data, "time", <<>>),
     date |-> Get(task_data, "date", today),
     completed |-> FALSE]

HandleSchedule(data, schedule, t) ==
    LET parsed == JsonLoads(data)
        today == DateOf(t)
    IN IF IsBlank(data) THEN Returns(ScheduleReport(schedule, today))
       ELSE IF ~parsed.ok \/ ~Subscriptable(parsed) THEN Returns(ErrorString("Schedule"))
       ELSE IF IsAction(parsed, "add")
            THEN Saves(AppendTo(schedule, "tasks", NewTask(schedule, parsed.value, today)),
                       [kind |-> "confirmation", category |-> "schedule",
                        title |-> Get(parsed.value, "title", ""),
                        time |-> Get(parsed.value, "time", <<>>)])
       ELSE Returns(ScheduleReport(schedule, today))

(***************************************************************************)
(* _handle_reminder                                                        *)
(***************************************************************************)
ReminderReport(reminders) ==
    LET active == Get(reminders, "items", <<>>)
    IN IF active = <<>> THEN NothingFound("No active reminders")
       ELSE [kind |-> "report", category |-> "reminder",
             lines |-> [i \in 1..Len(active) |->
                          [text |-> active[i].text, due |-> active[i].due]]]

HandleReminder(data, reminders, t) ==
    LET parsed == JsonLoads(data)
    IN IF IsBlank(data) THEN Returns(ReminderReport(reminders))
       ELSE IF ~parsed.ok \/ ~Subscriptable(parsed) THEN Returns(ErrorString("Reminder"))
       ELSE IF IsAction(parsed, "add")
            THEN Saves(AppendTo(reminders, "items",
                                [text |-> Get(parsed.value, "text", ""),
                                 due |-> Get(parsed.value, "due", ""),
                                 created |-> t]),
                       [kind |-> "confirmation", category |-> "reminder",
                        text |-> Get(parsed.value, "text", "")])
       ELSE Returns(ReminderReport(reminders))

(***************************************************************************)
(* _handle_note                                                            *)
(***************************************************************************)
RecentNotes == 5
NoteCut == 50

\* the last five notes, newest first; each line shows the first NoteCut
\* characters of the text and then "..."
NoteReport(notes) ==
    LET recent == Tail_n(Get(notes, "entries", <<>>), RecentNotes)
        shown == Reversed(recent)
    IN IF recent = <<>> THEN NothingFound("No notes found")
       ELSE [kind |-> "report", category |-> "note",
             lines |-> [i \in 1..Len(shown) |->
                          [timestamp |-> shown[i].timestamp,
                           text |-> shown[i].text, cut |-> NoteCut]]]

\* json.loads(data) if data.startswith("{") else {"text": data}
NoteData(data) ==
    IF StartsWithBrace(data) THEN JsonLoads(data)
    ELSE [ok |-> TRUE, type |-> "dict", value |-> [text |-> data.raw]]

HandleNote(data, notes, t) ==
    LET note_data == NoteData(data)
    IN IF IsBlank(data) THEN Returns(NoteReport(notes))
       ELSE IF ~note_data.ok THEN Returns(ErrorString("Note"))
       ELSE Saves(AppendTo(notes, "entries",
                           [text |-> Get(note_data.value, "text", data.raw),
                            timestamp |-> t,
                            tags |-> Get(note_data.value, "tags", <<>>)]),
                  [kind |-> "confirmation", category |-> "note"])

(***************************************************************************)
(* _handle_habit                                                           *)
(***************************************************************************)
HabitWindow == 7

\* (datetime.now() - datetime.strptime(d, "%Y-%m-%d")).days
DaysSince(t, d) == (t - Midnight(d)) \div MinutesPerDay

\* len([d for d in dates if (now - d).days <= 7])
Streak(dates, t) ==
    LET Recent(d) == DaysSince(t, d) <= HabitWindow
    IN Len(SelectSeq(dates, Recent))

HabitReport(habits, t) ==
    LET tracking == Get(habits, "tracking", EmptyDict)
    IN IF DOMAIN tracking = {} THEN NothingFound("No habits being tracked")
       ELSE [kind |-> "report", category |-> "habit",
             streak |-> [h \in DOMAIN tracking |-> Streak(tracking[h], t)]]

\* a track that marks a day once
TrackOnce(habits, habit_name, today) ==
    LET tracking == Get(habits, "tracking", EmptyDict)
        dates == Get(tracking, habit_name, <<>>)
    IN SetItem(habits, "tracking",
               SetItem(tracking, habit_name,
                       IF \E i \in 1..Len(dates) : dates[i] = today THEN dates
                       ELSE Append(dates, today)))

\* habits.setdefault("tracking", {}).setdefault(habit_name, []).append(today)
Track(habits, habit_name, today) ==
    SetItem(habits, "tracking",
            AppendTo(Get(habits, "tracking", EmptyDict), habit_name, today))

HandleHabit(data, habits, t) ==
    LET parsed == JsonLoads(data)
        today == DateOf(t)
    IN IF IsBlank(data) THEN Returns(HabitReport(habits, t))
       ELSE IF ~parsed.ok \/ ~Subscriptable(parsed) THEN Returns(ErrorString("Habit"))
       ELSE IF IsAction(parsed, "track")
            THEN Saves(Track(habits, Get(parsed.value, "habit", ""), today),
                       [kind |-> "confirmation", category |-> "habit",
                        habit |-> Get(parsed.value, "habit", "")])
       ELSE IF IsAction(parsed, "add")
            THEN Saves(AppendTo(habits, "list", Get(parsed.value, "name", "")),
                       [kind |-> "confirmation", category |-> "habit",
                        habit |-> Get(parsed.value, "name", "")])
       ELSE Returns(HabitReport(habits, t))

(***************************************************************************)
(* _handle_focus_session.  A "start" reads the clock three times: for      *)
(* start_time, for end_time and for the end time it prints.                *)
(***************************************************************************)
DefaultDuration == 25
ShownSessions == 3

TodaySessions(focus_data, today) ==
    LET StartedToday(s) == DateOf(s.start_time) = today
    IN SelectSeq(Get(focus_data, "sessions", <<>>), StartedToday)

FocusReport(focus_data, today) ==
    LET today_sessions == TodaySessions(focus_data, today)
        shown == Tail_n(today_sessions, ShownSessions)
    IN IF today_sessions = <<>> THEN NothingFound("No focus sessions today")
       ELSE [kind |-> "report", category |-> "focus",
             sessions |-> Len(today_sessions),
             minutes |-> Sum([i \in 1..Len(today_sessions) |-> today_sessions[i].duration]),
             lines |-> [i \in 1..Len(shown) |->
                          [start |-> shown[i].start_time % MinutesPerDay,
                           task |-> shown[i].task,
                           duration |-> shown[i].duration]]]

\* the session dict of lines 244-249; t1 and t2 are its two clock reads
NewSession(session_data, t1, t2) ==
    LET duration == Get(session_data, "duration", DefaultDuration)
    IN [task |-> Get(session_data, "task", "Focus session"),
        duration |-> duration,
        start_time |-> t1,
        end_time |-> t2 + duration]

HandleFocusSession(data, focus_data, reads) ==
    LET parsed == JsonLoads(data)
    IN IF IsBlank(data) THEN Returns(FocusReport(focus_data, DateOf(reads[1])))
       ELSE IF ~parsed.ok \/ ~Subscriptable(parsed) THEN Returns(ErrorString("Focus"))
       ELSE IF IsAction(parsed, "start")
            THEN Saves(AppendTo(focus_data, "sessions",
                                NewSession(parsed.value, reads[1], reads[2])),
                       [kind |-> "confirmation", category |-> "focus",
                        task |-> Get(parsed.value, "task", "Focus session"),
                        duration |-> Get(parsed.value, "duration", DefaultDuration),
                        end |-> reads[3] + Get(parsed.value, "duration", DefaultDuration)])
       ELSE Returns(FocusReport(focus_data, DateOf(reads[1])))

(***************************************************************************)
(* _get_daily_summary                                                      *)
(***************************************************************************)
\* a count of the check-ins of today, not of the habits checked in
RECURSIVE CheckInsToday(_, _)
CheckInsToday(tracking, today) ==
    IF DOMAIN tracking = {} THEN 0
    ELSE LET h == CHOOSE x \in DOMAIN tracking : TRUE
             rest == [x \in DOMAIN tracking \ {h} |-> tracking[x]]
         IN Occurrences(tracking[h], today) + CheckInsToday(rest, today)

\* sum(1 for dates in tracking.values() if today in dates)
RECURSIVE HabitsToday(_, _)
HabitsToday(tracking, today) ==
    IF DOMAIN tracking = {} THEN 0
    ELSE LET h == CHOOSE x \in DOMAIN tracking : TRUE
             rest == [x \in DOMAIN tracking \ {h} |-> tracking[x]]
             dates == tracking[h]
         IN (IF \E i \in 1..Len(dates) : dates[i] = today THEN 1 ELSE 0)
            + HabitsToday(rest, today)

GetDailySummary(docs, t) ==
    LET today == DateOf(t)
        today_tasks == TodayTasks(docs["schedule"], today)
        Done(task) == task.completed
        today_sessions == TodaySessions(docs["focus"], today)
    IN [kind |-> "summary", today |-> today,
        completed |-> Len(SelectSeq(today_tasks, Done)),
        tasks |-> Len(today_tasks),
        sessions |-> Len(today_sessions),
        minutes |-> Sum([i \in 1..Len(today_sessions) |-> today_sessions[i].duration]),
        habits |-> HabitsToday(Get(docs["habits"], "tracking", EmptyDict), today)]

(***************************************************************************)
(* daily_assistant                                                         *)
(***************************************************************************)
TaskTypes == {"schedule", "reminder", "note", "habit", "focus", "summary"}

\* notes kept in the file of the reminders
FileOfSlip(task_type) ==
    CASE task_type = "schedule" -> "schedule"
      [] task_type \in {"reminder", "note"} -> "reminders"
      [] task_type = "habit" -> "habits"
      [] task_type = "focus" -> "focus"
      [] OTHER -> "none"

\* the file each handler opens
FileOf(task_type) ==
    CASE task_type = "schedule" -> "schedule"
      [] task_type = "reminder" -> "reminders"
      [] task_type = "note" -> "notes"
      [] task_type = "habit" -> "habits"
      [] task_type = "focus" -> "focus"
      [] OTHER -> "none"

\* docs: what _load_json_file gives for each file; reads: the values of the
\* clock at the call's reads of it
DailyAssistant(task_type, data, docs, reads) ==
    CASE task_type = "schedule" -> HandleSchedule(data, docs["schedule"], reads[1])
      [] task_type = "reminder" -> HandleReminder(data, docs["reminders"], reads[1])
      [] task_type = "note" -> HandleNote(data, docs["notes"], reads[1])
      [] task_type = "habit" -> HandleHabit(data, docs["habits"], reads[1])
      [] task_type = "focus" -> HandleFocusSession(data, docs["focus"], reads)
      [] task_type = "summary" -> Returns(GetDailySummary(docs, reads[1]))
      [] OTHER -> Returns([kind |-> "unknown", task_type |-> task_type])

\* the records a document holds
Size(doc) ==
    LET tracking == Get(doc, "tracking", EmptyDict)
        RECURSIVE Tracked(_)
        Tracked(hs) == IF hs = {} THEN 0
                       ELSE LET h == CHOOSE x \in hs : TRUE
                            IN Len(tracking[h]) + Tracked(hs \ {h})
    IN Len(Get(doc, "tasks", <<>>)) + Len(Get(doc, "items", <<>>))
       + Len(Get(doc, "entries", <<>>)) + Len(Get(doc, "list", <<>>))
       + Len(Get(doc, "sessions", <<>>)) + Tracked(DOMAIN tracking)

Loaded == [c \in Categories |-> LoadJsonFile(files[c])]

\* the records on disk, those of a file that no longer parses included
Records ==
    Size(files["schedule"].doc) + Size(files["reminders"].doc) + Size(files["notes"].doc)
    + Size(files["habits"].doc) + Size(files["focus"].doc)

\* the clock within a day of the model
InDay(t) == t % MinutesPerDay <= MaxMinute

\* what a later read of the clock may give
Later(t) == {u \in {t, t + 1} : InDay(u)}

\* a focus "start" reads the clock three times, every other call once (a
\* loop's reads of it are taken as one)
ClockReads(task_type, data) ==
    IF task_type = "focus" /\ ~IsBlank(data) /\ IsAction(JsonLoads(data), "start")
    THEN UNION {{<<now, t2, t3>> : t3 \in Later(t2)} : t2 \in Later(now)}
    ELSE {<<now, now, now>>}

(***************************************************************************)
(* The data strings the model calls daily_assistant with.                  *)
(***************************************************************************)
Empty == [form |-> "empty", obj |-> EmptyDict, raw |-> ""]
Blank == [form |-> "blank", obj |-> EmptyDict, raw |-> "  "]
PlainText == [form |-> "text", obj |-> EmptyDict, raw |-> "buy milk"]
Draft == [form |-> "brace", obj |-> EmptyDict, raw |-> "{draft"]
Array == [form |-> "array", obj |-> EmptyDict, raw |-> "[1]"]
Number == [form |-> "number", obj |-> EmptyDict, raw |-> "5"]
Object(obj) == [form |-> "object", obj |-> obj]
NoAction == Object([action |-> "list"])
Unusable == {PlainText, Draft, Number}
Reading == {Empty, Blank, Array, Object(EmptyDict), NoAction}

Titles == {"a", "b"}
\* "9" and "10", as character codes
Times == {<<57>>, <<49, 48>>}

ScheduleAdds ==
    {Object([action |-> "add", title |-> ti, time |-> tm]) : ti \in Titles, tm \in Times}
    \cup {Object([action |-> "add", title |-> ti, time |-> tm, date |-> d]) :
             ti \in Titles, tm \in Times, d \in 0..MaxDay}

SchedulePayloads == Reading \cup Unusable \cup ScheduleAdds

NoteObject ==
    [form |-> "object", obj |-> [text |-> "t1", tags |-> <<"x">>],
     raw |-> "{\"text\": \"t1\", \"tags\": [\"x\"]}"]
NoteNoText ==
    [form |-> "object", obj |-> [tags |-> <<"x">>], raw |-> "{\"tags\": [\"x\"]}"]
NotePadded ==
    [form |-> "padded", obj |-> [text |-> "t2"], raw |-> " {\"text\": \"t2\"}"]

NotePayloads == {Empty, Blank, PlainText, Draft, Array, Number, NoteObject, NoteNoText, NotePadded}

Habits == {"run", "read"}

HabitPayloads ==
    Reading \cup Unusable
    \cup {Object([action |-> "track", habit |-> h]) : h \in Habits}
    \cup {Object([action |-> "add", name |-> h]) : h \in Habits}

Durations == {25, 50}

FocusPayloads ==
    {Empty, NoAction, PlainText, Object([action |-> "start"])}
    \cup {Object([action |-> "start", duration |-> d, task |-> "Write spec"]) : d \in Durations}

\* for the runs over all task types: a few strings of every form
Payloads(task_type) ==
    CASE task_type = "schedule" ->
             {Empty, Blank, PlainText, NoAction,
              Object([action |-> "add", title |-> "a", time |-> <<57>>])}
      [] task_type = "reminder" ->
             {Empty, PlainText, Object([action |-> "add", text |-> "call"])}
      [] task_type = "note" -> {Empty, Blank, PlainText, Draft, NoteObject}
      [] task_type = "habit" ->
             {Empty, PlainText, NoAction,
              Object([action |-> "track", habit |-> "run"]),
              Object([action |-> "add", name |-> "run"])}
      [] task_type = "focus" -> {Empty, PlainText, Object([action |-> "start"])}
      [] OTHER -> {Empty}

(***************************************************************************)
(* The state after start-up: no file written yet, no call made.            *)
(***************************************************************************)
Servers == {1, 2}

NoCall == [task_type |-> "none", data |-> Empty, at |-> 0, found |-> "none"]
NoResult == [kind |-> "none"]
Idle == [at |-> "idle", task_type |-> "none", data |-> Empty, result |-> NoResult]
NoRequest == [ok |-> TRUE, text |-> <<>>]

Init ==
    /\ files = [c \in Categories |-> Absent]
    /\ now = 0
    /\ call = NoCall
    /\ result = NoResult
    /\ pc = [p \in Servers |-> Idle]
    /\ loaded = [p \in Servers |-> EmptyDict]
    /\ request = NoRequest
    /\ answer = <<>>

(***************************************************************************)
(* A call of daily_assistant, run from dispatch to return.                 *)
(***************************************************************************)
\* what the call finds where its file should be
Found(task_type) ==
    IF FileOf(task_type) \in Categories THEN files[FileOf(task_type)].state ELSE "none"

Call(task_type, data) ==
    \E reads \in ClockReads(task_type, data) :
        LET out == DailyAssistant(task_type, data, Loaded, reads)
        IN /\ out.save => Records < MaxRecords
           /\ files' = IF out.save
                        THEN [files EXCEPT ![FileOf(task_type)] = SaveJsonFile(out.doc)]
                        ELSE files
           /\ now' = reads[3]
           /\ call' = [task_type |-> task_type, data |-> data, at |-> now,
                       found |-> Found(task_type)]
           /\ result' = out.result
           /\ UNCHANGED <<pc, loaded, request, answer>>

\* the clock moves on between calls
NextDayTo(last) ==
    /\ DateOf(now) < last
    /\ now' = Midnight(DateOf(now) + 1)
    /\ UNCHANGED <<files, call, result, pc, loaded, request, answer>>

NextDay == NextDayTo(MaxDay)

Next ==
    \/ \E task_type \in TaskTypes \cup {"weather"} :
           \E data \in Payloads(task_type) : Call(task_type, data)
    \/ NextDay

Spec == Init /\ [][Next]_vars

NextSchedule ==
    \/ \E data \in SchedulePayloads : Call("schedule", data)
    \/ NextDay

SpecSchedule == Init /\ [][NextSchedule]_vars

NextNote ==
    \/ \E data \in NotePayloads : Call("note", data)
    \/ NextDay

SpecNote == Init /\ [][NextNote]_vars

\* the habit runs follow the clock to the day after the 7-day window
NextHabit ==
    \/ \E data \in HabitPayloads : Call("habit", data)
    \/ Call("summary", Empty)
    \/ NextDayTo(HabitWindow + 1)

SpecHabit == Init /\ [][NextHabit]_vars

\* the focus runs stay within a day: the clock moves as the calls read it
NextFocus == \E data \in FocusPayloads : Call("focus", data)

SpecFocus == Init /\ [][NextFocus]_vars

(***************************************************************************)
(* The files are the user's: a file may be removed, and a write that is    *)
(* cut short leaves a file that does not parse.                            *)
(***************************************************************************)
Remove(c) ==
    /\ files[c].state # "absent"
    /\ files' = [files EXCEPT ![c] = Absent]
    /\ UNCHANGED <<now, call, result, pc, loaded, request, answer>>

Damage(c) ==
    /\ files[c].state = "ok"
    /\ files' = [files EXCEPT ![c] = [state |-> "corrupt", doc |-> files[c].doc]]
    /\ UNCHANGED <<now, call, result, pc, loaded, request, answer>>

\* for these runs: the read paths and one mutation of every category
StorePayloads(task_type) ==
    {data \in Payloads(task_type) : ~IsBlank(data) => JsonLoads(data).ok}
    \cup (IF task_type = "note" THEN {PlainText} ELSE {})

NextStore ==
    \/ \E task_type \in TaskTypes \ {"summary"} :
           \E data \in StorePayloads(task_type) : Call(task_type, data)
    \/ \E c \in Categories : Remove(c)
    \/ \E c \in Categories : Damage(c)

SpecStore == Init /\ [][NextStore]_vars

(***************************************************************************)
(* Two server processes on one ~/.daily_assistant.  A handler holds no     *)
(* await between its load and its save, so the calls of one process run    *)
(* one after the other; the calls of two processes interleave at the file  *)
(* accesses: the load (Begin) and the save (Finish).                       *)
(***************************************************************************)
RacePayloads(task_type) ==
    CASE task_type = "schedule" ->
             {Object([action |-> "add", title |-> ti, time |-> <<57>>]) : ti \in Titles}
      [] task_type = "habit" -> {Object([action |-> "track", habit |-> h]) : h \in Habits}
      [] OTHER -> {}

Running == {p \in Servers : pc[p].at = "running"}

\* a handler that reads the file again when it saves
Reread(p) == LoadJsonFile(files[FileOf(pc[p].task_type)])

\* the document a handler changes and saves: the one it loaded
InMemory(p) == loaded[p]

Begin(p, task_type, data) ==
    /\ pc[p].at = "idle"
    /\ Records + Cardinality(Running) < MaxRecords
    /\ loaded' = [loaded EXCEPT ![p] = LoadJsonFile(files[FileOf(task_type)])]
    /\ pc' = [pc EXCEPT ![p] = [at |-> "running", task_type |-> task_type,
                                 data |-> data, result |-> NoResult]]
    /\ UNCHANGED <<files, now, call, result, request, answer>>

Finish(p) ==
    /\ pc[p].at = "running"
    /\ LET file == FileOf(pc[p].task_type)
           out == DailyAssistant(pc[p].task_type, pc[p].data,
                                 [Loaded EXCEPT ![file] = InMemory(p)], <<now, now, now>>)
       IN /\ files' = IF out.save THEN [files EXCEPT ![file] = SaveJsonFile(out.doc)]
                       ELSE files
          /\ pc' = [pc EXCEPT ![p].at = "returned", ![p].result = out.result]
    /\ UNCHANGED <<now, call, result, loaded, request, answer>>

Release(p) ==
    /\ pc[p].at = "returned"
    /\ pc' = [pc EXCEPT ![p] = Idle]
    /\ loaded' = [loaded EXCEPT ![p] = EmptyDict]
    /\ UNCHANGED <<files, now, call, result, request, answer>>

NextRace ==
    \/ \E p \in Servers : \E task_type \in {"schedule", "habit"} :
           \E data \in RacePayloads(task_type) : Begin(p, task_type, data)
    \/ \E p \in Servers : Finish(p)
    \/ \E p \in Servers : Release(p)

SpecRace == Init /\ [][NextRace]_vars

(***************************************************************************)
(* get_code and visualize_code.  Texts are sequences of character codes.   *)
(* The network answers a request with a body, or the request fails with a  *)
(* message (an exception of httpx, raise_for_status included).             *)
(***************************************************************************)
\* "Error fetching code: "
ErrorPrefix == 
    <<69, 114, 114, 111, 114, 32, 102, 101, 116, 99, 104, 105, 110, 103, 32, 99, 111, 100, 101, 58, 32>>

\* "Please generate an SVG visualization for this code:\n\n"
PromptPrefix == 
    <<80, 108, 101, 97, 115, 101, 32, 103, 101, 110, 101, 114, 97, 116, 101, 32,
    97, 110, 32, 83, 86, 71, 32, 118, 105, 115, 117, 97, 108, 105, 122, 97, 116,
    105, 111, 110, 32, 102, 111, 114, 32, 116, 104, 105, 115, 32, 99, 111, 100,
    101, 58, 10, 10>>

\* "error"
Needle == <<101, 114, 114, 111, 114>>

\* E e r o and a space
Alphabet == {69, 101, 114, 111, 32}

Texts == UNION {[1..n -> Alphabet] : n \in 0..MaxBody}

\* 404 and the empty message
Messages == {<<52, 48, 52>>, <<>>}

Responses ==
    {[ok |-> TRUE, text |-> body] : body \in Texts}
    \cup {[ok |-> FALSE, text |-> msg] : msg \in Messages}

\* str.lower(), one character
LowerChar(c) == IF c >= 65 /\ c <= 90 THEN c + 32 ELSE c

Lower(text) == [i \in 1..Len(text) |-> LowerChar(text[i])]

\* needle in text
Contains(text, needle) ==
    \E k \in 0..(Len(text) - Len(needle)) :
        \A i \in 1..Len(needle) : text[k + i] = needle[i]

GetCode(response) ==
    IF response.ok THEN response.text ELSE ErrorPrefix \o response.text

\* a search for "error" as written
LooksLikeErrorExact(code) == Contains(code, Needle)

\* if "error" in code.lower()
LooksLikeError(code) == Contains(Lower(code), Needle)

VisualizeCode(response) ==
    LET code == GetCode(response)
    IN IF LooksLikeError(code) THEN code ELSE PromptPrefix \o code

Visualize(response) ==
    /\ request' = response
    /\ answer' = VisualizeCode(response)
    /\ UNCHANGED <<files, now, call, result, pc, loaded>>

\* the call has returned: nothing of it is kept
Forget ==
    /\ answer # <<>>
    /\ request' = NoRequest
    /\ answer' = <<>>
    /\ UNCHANGED <<files, now, call, result, pc, loaded>>

NextVisualize ==
    \/ answer = <<>> /\ \E response \in Responses : Visualize(response)
    \/ Forget

SpecVisualize == Init /\ [][NextVisualize]_vars

(***************************************************************************)
(* The claims.                                                             *)
(***************************************************************************)
StoredTasks == Get(LoadJsonFile(files["schedule"]), "tasks", <<>>)

LinesWith(lines, time, title) ==
    Cardinality({i \in 1..Len(lines) : lines[i].time = time /\ lines[i].title = title})

Ascending(lines) ==
    \A i, j \in 1..Len(lines) : i < j => ~LexLess(lines[j].time, lines[i].time)

ShowedSchedule == call.task_type = "schedule" /\ call.data = Empty

AddedTask ==
    /\ call.task_type = "schedule"
    /\ ~IsBlank(call.data)
    /\ IsAction(JsonLoads(call.data), "add")

\* C1 as stated: after the adds made so far (each of a title and a time, the
\* date given or not), daily_assistant("schedule", "") returns a report that
\* holds every added task's title and time exactly once, in ascending lexical
\* order of the times.
C1_ShowListsEveryAddedTaskOnce ==
    ShowedSchedule =>
        \A i \in 1..Len(StoredTasks) :
            /\ result.kind = "report"
            /\ LinesWith(result.lines, StoredTasks[i].time, StoredTasks[i].title) = 1
            /\ Ascending(result.lines)

\* C1 as amended: an add stores one task of the payload's title and time, not
\* completed, dated as the payload says or, without a date, with the day of
\* the call; daily_assistant("schedule", "") lists the stored tasks dated the
\* day of that call and no other, one line for each stored task, in ascending
\* lexical order of the times (and says "No tasks scheduled for today" when
\* there is none).
C1_ShowListsTodaysTasksInTimeOrder ==
    /\ AddedTask =>
           /\ result.kind = "confirmation"
           /\ StoredTasks # <<>>
           /\ Last(StoredTasks) =
                  [id |-> Len(StoredTasks),
                   title |-> call.data.obj.title,
                   time |-> call.data.obj.time,
                   date |-> Get(call.data.obj, "date", DateOf(call.at)),
                   completed |-> FALSE]
    /\ ShowedSchedule =>
           LET todays == {i \in 1..Len(StoredTasks) : StoredTasks[i].date = DateOf(call.at)}
           IN IF todays = {} THEN result = NothingFound("No tasks scheduled for today")
              ELSE /\ result.kind = "report"
                   /\ Len(result.lines) = Cardinality(todays)
                   /\ Ascending(result.lines)
                   /\ \A i \in todays :
                          LinesWith(result.lines, StoredTasks[i].time, StoredTasks[i].title)
                          = Cardinality({j \in todays :
                                           /\ StoredTasks[j].time = StoredTasks[i].time
                                           /\ StoredTasks[j].title = StoredTasks[i].title})

\* a report of two tasks, "b" at "10" listed before "a" at "9" though added
\* after it
C1_Witness ==
    /\ ShowedSchedule
    /\ result.kind = "report"
    /\ Len(result.lines) = 2
    /\ result.lines[1].time = <<49, 48>> /\ result.lines[1].title = "b"
    /\ result.lines[2].time = <<57>> /\ result.lines[2].title = "a"
    /\ StoredTasks[1].title = "a"

Handlers == {"schedule", "reminder", "note", "habit", "focus"}

KnownAction(task_type, data) ==
    LET verbs == CASE task_type \in {"schedule", "reminder"} -> {"add"}
                   [] task_type = "habit" -> {"track", "add"}
                   [] task_type = "focus" -> {"start"}
                   [] OTHER -> {}
    IN \E verb \in verbs : IsAction(JsonLoads(data), verb)

\* the calls that take a handler's read path
ReadPathTaken(task_type, data) ==
    /\ task_type \in Handlers
    /\ \/ IsBlank(data)
       \/ /\ task_type # "note"
          /\ data.form \in {"object", "padded", "array"}
          /\ ~KnownAction(task_type, data)

FixedMessage(task_type) ==
    CASE task_type = "schedule" -> "No tasks scheduled for today"
      [] task_type = "reminder" -> "No active reminders"
      [] task_type = "note" -> "No notes found"
      [] task_type = "habit" -> "No habits being tracked"
      [] task_type = "focus" -> "No focus sessions today"
      [] OTHER -> ""

\* C2: a file that is absent or does not parse loads as the empty mapping,
\* and a read path that finds its file so returns the category's fixed
\* nothing-found message, not an error string.
C2_MissingOrDamagedFileReadsAsEmpty ==
    /\ \A c \in Categories : files[c].state # "ok" => LoadJsonFile(files[c]) = EmptyDict
    /\ (ReadPathTaken(call.task_type, call.data) /\ call.found \in {"absent", "corrupt"})
           => result = NothingFound(FixedMessage(call.task_type))

\* a schedule read that found its file damaged, a task in what is left of it
C2_Witness ==
    /\ call.task_type = "schedule" /\ IsBlank(call.data)
    /\ call.found = "corrupt"
    /\ files["schedule"].state = "corrupt"
    /\ Get(files["schedule"].doc, "tasks", <<>>) # <<>>
    /\ result = NothingFound("No tasks scheduled for today")

Confirmed(p) == pc[p].at = "returned" /\ pc[p].result.kind = "confirmation"

StoredSessions == Get(LoadJsonFile(files["focus"]), "sessions", <<>>)

\* C4: every stored session ends exactly its duration after it starts.
C4_EndIsStartPlusDuration ==
    \A i \in 1..Len(StoredSessions) :
        StoredSessions[i].end_time = StoredSessions[i].start_time + StoredSessions[i].duration

Tracking == Get(LoadJsonFile(files["habits"]), "tracking", EmptyDict)

OneDate(dates) == \A i \in 1..Len(dates) : dates[i] = dates[1]

ReadHabits == call.task_type = "habit" /\ IsBlank(call.data)

\* C5 as stated: a habit tracked k times, all on one date, is reported with a
\* 7-day count of k by the habit read path.
C5_SameDateCountIsK ==
    ReadHabits =>
        \A h \in DOMAIN Tracking :
            OneDate(Tracking[h]) =>
                result.kind = "report" /\ result.streak[h] = Len(Tracking[h])

TrackCall(h) ==
    /\ call'.task_type = "habit"
    /\ ~IsBlank(call'.data) /\ IsAction(JsonLoads(call'.data), "track")
    /\ call'.data.obj.habit = h
    /\ (call' # call \/ files' # files)

\* C5 as amended: every track call appends the date of the call to the
\* habit's list, tracked that day already or not; and a habit tracked k times,
\* all on one date, is reported with a count of k by a habit read made on that
\* date or on one of the 7 days after it.
C5_SameDateCountIsKWithinWindow ==
    /\ [][\A h \in Habits : TrackCall(h) =>
             Get(Tracking, h, <<>>)' = Append(Get(Tracking, h, <<>>), DateOf(now))]_vars
    /\ [](ReadHabits =>
             \A h \in DOMAIN Tracking :
                 (OneDate(Tracking[h]) /\ DateOf(call.at) - Tracking[h][1] <= 7) =>
                     result.kind = "report" /\ result.streak[h] = Len(Tracking[h]))

\* "run" tracked twice on one date and reported as 2, seven days later
C5_Witness ==
    /\ ReadHabits
    /\ "run" \in DOMAIN Tracking
    /\ Len(Tracking["run"]) = 2 /\ OneDate(Tracking["run"])
    /\ DateOf(call.at) = Tracking["run"][1] + 7
    /\ result.kind = "report" /\ result.streak["run"] = 2

StoredNotes == Get(LoadJsonFile(files["notes"]), "entries", <<>>)

\* C6, "non-empty" read as the code reads it (not blank): a note call with
\* such a payload appends one note; the note of a payload that parses as a
\* JSON object with a text has the object's text and tags, the note of any
\* other payload has the raw payload as its text and no tags.
C6_PayloadBecomesNote ==
    (call.task_type = "note" /\ ~IsBlank(call.data)) =>
        /\ result.kind = "confirmation"
        /\ StoredNotes # <<>>
        /\ LET note == Last(StoredNotes)
               object == call.data.form \in {"object", "padded"}
           IN IF object /\ "text" \in DOMAIN call.data.obj
              THEN note.text = call.data.obj.text
                   /\ note.tags = Get(call.data.obj, "tags", <<>>)
              ELSE object \/ (note.text = call.data.raw /\ note.tags = <<>>)

Capitalized(task_type) ==
    CASE task_type = "schedule" -> "Schedule"
      [] task_type = "reminder" -> "Reminder"
      [] task_type = "habit" -> "Habit"
      [] task_type = "focus" -> "Focus"
      [] OTHER -> ""

NotJson(data) == data.form \in {"blank", "text", "brace"}

\* C7 as stated: a schedule, reminder, habit or focus call whose payload is
\* not empty and is not valid JSON returns "<Category> error: ..." and
\* changes none of the five documents.
C7_InvalidJsonIsAnErrorString ==
    [][(call'.task_type \in {"schedule", "reminder", "habit", "focus"}
        /\ NotJson(call'.data))
       => (result' = ErrorString(Capitalized(call'.task_type)) /\ files' = files)]_vars

\* C7 as amended: a schedule, reminder, habit or focus call whose payload is
\* not blank (something is left of it when its whitespace is stripped) and is
\* not valid JSON returns "<Category> error: ..." and changes none of the
\* five documents.
C7_InvalidJsonNotBlankIsAnErrorString ==
    [][(call'.task_type \in {"schedule", "reminder", "habit", "focus"}
        /\ NotJson(call'.data) /\ ~IsBlank(call'.data))
       => (result' = ErrorString(Capitalized(call'.task_type)) /\ files' = files)]_vars

\* "buy milk" sent to the habit handler of a store that holds records
C7_Witness ==
    /\ call.task_type = "habit" /\ call.data = PlainText
    /\ result = ErrorString("Habit")
    /\ Records = MaxRecords

ContainsIgnoringCase(text, needle) ==
    \E k \in 0..(Len(text) - Len(needle)) :
        \A i \in 1..Len(needle) : LowerChar(text[k + i]) = needle[i]

\* C8: a fetched body that holds "error", in any case, is returned as it is,
\* without the prompt, as is the "Error fetching code: ..." of a failed fetch.
C8_BodyWithErrorIsReturnedBare ==
    answer # <<>> =>
        /\ (request.ok /\ ContainsIgnoringCase(request.text, Needle)) => answer = request.text
        /\ ~request.ok => answer = ErrorPrefix \o request.text

\* the body "Error"
C8_Witness ==
    /\ request.ok
    /\ request.text = <<69, 114, 114, 111, 114>>
    /\ answer = request.text

SummaryHabits(docs, t) == GetDailySummary(docs, t).habits

TrackedAgain(h) ==
    /\ call'.task_type = "habit"
    /\ ~IsBlank(call'.data) /\ IsAction(JsonLoads(call'.data), "track")
    /\ call'.data.obj.habit = h
    /\ files'["habits"] # files["habits"]
    /\ h \in DOMAIN Tracking
    /\ \E i \in 1..Len(Tracking[h]) : Tracking[h][i] = DateOf(now)

\* C9: the summary reports the number of habits whose tracking list holds
\* today's date; tracking a habit already tracked today leaves that number
\* as it was and raises the habit handler's 7-day count of the habit by one.
C9_SummaryCountsAHabitOnce ==
    /\ [](call.task_type = "summary" =>
             result.habits = Cardinality({h \in DOMAIN Tracking :
                                \E i \in 1..Len(Tracking[h]) :
                                    Tracking[h][i] = DateOf(call.at)}))
    /\ [][\A h \in Habits : TrackedAgain(h) =>
             /\ SummaryHabits(Loaded', now') = SummaryHabits(Loaded, now)
             /\ HabitReport(Loaded'["habits"], now').streak[h]
                = HabitReport(Loaded["habits"], now).streak[h] + 1]_vars

\* a summary that counts one habit, tracked twice today
C9_Witness ==
    /\ call.task_type = "summary"
    /\ result.habits = 1
    /\ "run" \in DOMAIN Tracking
    /\ Tracking["run"] = <<DateOf(call.at), DateOf(call.at)>>

\* the document of a task type
OwnDocument(task_type) ==
    CASE task_type = "schedule" -> "schedule"
      [] task_type = "reminder" -> "reminders"
      [] task_type = "note" -> "notes"
      [] task_type = "habit" -> "habits"
      [] task_type = "focus" -> "focus"
      [] OTHER -> "none"

\* the calls C10 says change nothing
ChangesNothing(task_type, data) ==
    \/ task_type \notin Handlers
    \/ IsBlank(data)
    \/ /\ task_type # "note"
       /\ data.form \in {"object", "padded", "array", "number"}
       /\ ~KnownAction(task_type, data)

\* C10: a call changes no document but that of its task type, and a call
\* that takes a read path, a summary and a call of an unknown task type
\* change none.
C10_CallChangesOnlyItsOwnDocument ==
    [][/\ \A c \in Categories :
             files'[c] # files[c] => c = OwnDocument(call'.task_type)
       /\ ChangesNothing(call'.task_type, call'.data) => files' = files]_vars

\* a note saved beside a reminder
C10_Witness ==
    /\ call.task_type = "note" /\ result.kind = "confirmation"
    /\ files["notes"].state = "ok"
    /\ files["reminders"].state = "ok"

====
